---- MODULE Spec2Model ----
(***************************************************************************)
(* Tenant authentication, quota enforcement and usage recording of the     *)
(* PERN SaaS API builder (backend/middleware/auth.js) over the tables of   *)
(* database/init.sql.  Every `await pool.query(...)` of a handler is one   *)
(* step: requests interleave at their awaits, and each query either        *)
(* succeeds or rejects (the store is unreachable).                         *)
(***************************************************************************)
EXTENDS Integers, FiniteSets, Sequences, Bags, TLC

\* ---------------------------------------------------------------- bounds
\* Requests made in one behaviour; all of them may be in flight at once.
MaxRequests == 2
\* The clock runs over 0..MaxTime.
MaxTime == 2
\* Clock ticks in one UTC calendar day.
TicksPerDay == 2
MaxSockets == 1     \* sockets that connect
MaxJoins == 1       \* join-tenant events received
MaxChecks == 2      \* requirePermission and requirePlan invocations
MaxEvents == 2      \* execute-query and test-connection events received
MaxAttempts == 2    \* join-tenant events one client sends one after another
MaxPeers == 1       \* further sockets, connected where rooms are shared
\* auth.js 564: INTERVAL '10 minutes'
StaleMinutes == 10
\* Where the registry ages, the clock counts minutes and runs long enough for
\* a row written in the first MaxTime minutes to become stale.
MaxMinutes == MaxTime + StaleMinutes + 1

NULL == "NULL"

VARIABLES
    tenants,        \* table tenants: id -> row
    api_keys,       \* table api_keys: api_key -> row (api_key is UNIQUE)
    api_usage_logs, \* table api_usage_logs: bag of rows (the uuid id left out)
    reqs,           \* the requests, in order of arrival
    now,            \* the clock
    maxInFlight,    \* history: most requests ever at once between count and insert
    sockets,        \* the socket.io sockets: their fields, rooms and emitted events
    joins,          \* the join-tenant handler invocations, in order of arrival
    realtime_connections, \* table realtime_connections: connection_id -> {} or {row}
    presented,      \* history: the headers and query each request arrived with
    checks,         \* the requirePermission and requirePlan invocations, in order
    events,         \* the execute-query and test-connection events, in order
    swept           \* history: the last run of the cleanup interval

vars == <<tenants, api_keys, api_usage_logs, reqs, now, maxInFlight,
          sockets, joins, realtime_connections, presented, checks, events, swept>>

\* What the HTTP middleware leaves alone, and what the channel leaves alone.
channel == <<sockets, joins, realtime_connections, events, swept>>
http == <<api_keys, api_usage_logs, reqs, maxInFlight, presented, checks>>

Requests == 1..MaxRequests

\* ------------------------------------------------------------ store rows
TenantIds == {"t1", "t2", "t3", "t4", "t5"}

TenantRow(id, key, plan, quota, active) ==
    [id |-> id, api_key |-> key, plan |-> plan,
     max_requests_per_day |-> quota, is_active |-> active]

\* tenants: t1 active, t2 inactive, t3 active with a quota of 0 and a primary
\* key value "kx" that is also the value of a secondary key of t1 (UNIQUE is
\* per table), t4 active on the enterprise plan, t5 active on the pro plan.
InitTenants ==
    [t \in TenantIds |->
        CASE t = "t1" -> TenantRow("t1", "k1", "basic", 1, TRUE)
          [] t = "t2" -> TenantRow("t2", "k2", "enterprise", 1, FALSE)
          [] t = "t3" -> TenantRow("t3", "kx", "pro", 0, TRUE)
          [] t = "t4" -> TenantRow("t4", "k4", "enterprise", 1, TRUE)
          [] t = "t5" -> TenantRow("t5", "k5", "pro", 1, TRUE)]

\* A nullable column holds {} (SQL NULL) or {v}.
ApiKeyRow(tid, perms, rl, active, exp) ==
    [tenant_id |-> tid, permissions |-> perms, rate_limit |-> rl,
     is_active |-> active, expires_at |-> exp, last_used_at |-> {}]

SecondaryKeys == {"s1", "s2", "s3", "s4", "s5", "kx"}

InitApiKeys ==
    [k \in SecondaryKeys |->
        CASE k = "s1" -> ApiKeyRow("t1", {"read"}, {2}, TRUE, {})
          [] k = "s2" -> ApiKeyRow("t2", {"read"}, {1}, TRUE, {})
          [] k = "s3" -> ApiKeyRow("t1", {"read", "write"}, {3}, TRUE, {0})
          [] k = "s4" -> ApiKeyRow("t1", {}, {0}, FALSE, {})
          [] k = "s5" -> ApiKeyRow("t5", {"read"}, {0}, TRUE, {})
          [] k = "kx" -> ApiKeyRow("t1", {"write"}, {}, TRUE, {})]

\* ----------------------------------------------------------- credentials
\* Signed session tokens (jwt.sign output always starts with "eyJ"): the
\* payload's tenantId, whether the signature verifies under JWT_SECRET, and exp.
SessionTokens ==
    [c \in {"eyJ.t1", "eyJ.t2", "eyJ.t1.forged", "eyJ.t1.short", "eyJ.t9"} |->
        CASE c = "eyJ.t1"        -> [tenantId |-> "t1", signed |-> TRUE,  exp |-> MaxTime + 100]
          [] c = "eyJ.t2"        -> [tenantId |-> "t2", signed |-> TRUE,  exp |-> MaxTime + 100]
          [] c = "eyJ.t1.forged" -> [tenantId |-> "t1", signed |-> FALSE, exp |-> MaxTime + 100]
          [] c = "eyJ.t1.short"  -> [tenantId |-> "t1", signed |-> TRUE,  exp |-> 1]
          [] c = "eyJ.t9"        -> [tenantId |-> "t9", signed |-> TRUE,  exp |-> MaxTime + 100]]

OpaqueKeys == {"k1", "k2", "kx", "s1", "s2", "s3", "s4", "bad"}

Credentials == OpaqueKeys \cup DOMAIN SessionTokens

\* apiKey.startsWith('eyJ')
StartsWithEyJ(c) == c \in DOMAIN SessionTokens

\* ------------------------------------------------------------- JS values
\* JavaScript truthiness of a string-or-undefined value.
Truthy(v) == v /= NULL /\ v /= ""
\* a || b
Or(a, b) == IF Truthy(a) THEN a ELSE b
\* Truthiness of a nullable column: NULL and 0 are falsy.
TruthyCol(c) == c /= {} /\ c /= {0}
Val(c) == CHOOSE v \in c : TRUE

\* A header value as the chunks of its text; "Bearer " is one chunk.
BearerPrefix == "Bearer "
Absent == [present |-> FALSE, chunks |-> <<>>]
Header(chunks) == [present |-> TRUE, chunks |-> chunks]

\* String.prototype.replace('Bearer ', ''): drops the first occurrence only.
RECURSIVE ReplaceBearer(_)
ReplaceBearer(chunks) ==
    IF chunks = <<>> THEN <<>>
    ELSE IF Head(chunks) = BearerPrefix THEN Tail(chunks)
    ELSE <<Head(chunks)>> \o ReplaceBearer(Tail(chunks))

\* The text of a chunk sequence of length at most one.
Text(chunks) == IF chunks = <<>> THEN "" ELSE chunks[1]

\* req.headers['authorization']?.replace('Bearer ', '')
AuthorizationValue(a) ==
    IF a.present THEN Text(ReplaceBearer(a.chunks)) ELSE NULL

\* Mutant: the query parameter tried first and the key header last.
ExtractApiKeyQueryFirst(h) ==
    Or(Or(h.api_key, AuthorizationValue(h.authorization)), h.x_api_key)

\* auth.js 13-15
ExtractApiKey(h) == Or(Or(h.x_api_key, AuthorizationValue(h.authorization)), h.api_key)

Headers(x, a, q) == [x_api_key |-> x, authorization |-> a, api_key |-> q]

\* The requests tried: no credential at all, or one credential in one of the
\* three places with the other places absent, empty or holding another value.
RequestHeaders ==
    {Headers(NULL, Absent, NULL), Headers("", Header(<<BearerPrefix>>), "")}
    \cup {Headers(c, Absent, NULL) : c \in Credentials}
    \cup {Headers("", Header(<<BearerPrefix, c>>), "bad") : c \in Credentials}
    \cup {Headers(c, Header(<<BearerPrefix, "bad">>), "bad") : c \in Credentials}
    \cup {Headers(NULL, Header(<<c>>), NULL) : c \in Credentials}
    \cup {Headers(NULL, Header(<<>>), c) : c \in Credentials}

\* The values of apiKey those requests give.
ExtractedKeys == {ExtractApiKey(h) : h \in RequestHeaders}

\* jwt.verify(token, JWT_SECRET): throws on a bad signature, a malformed
\* token, or when the clock has reached exp.
JwtVerifies(c, t) ==
    /\ c \in DOMAIN SessionTokens
    /\ SessionTokens[c].signed
    /\ t < SessionTokens[c].exp

\* ------------------------------------------------------------ the queries
\* SELECT * FROM tenants WHERE id = $1 AND is_active = true
ActiveTenantById(ts, id) == {ts[t] : t \in {u \in DOMAIN ts : u = id /\ ts[u].is_active}}

NoKey == [api_key |-> NULL, permissions |-> {}, rate_limit |-> {}, expires_at |-> {}]

JoinRow(t, k, ak) ==
    [id |-> t.id, api_key |-> t.api_key, plan |-> t.plan,
     max_requests_per_day |-> t.max_requests_per_day, is_active |-> t.is_active,
     matched |-> k, permissions |-> ak.permissions,
     api_key_rate_limit |-> ak.rate_limit, expires_at |-> ak.expires_at]

\* FROM tenants t LEFT JOIN api_keys ak ON t.id = ak.tenant_id AND ak.api_key = $1
LeftJoin(ts, aks, key) ==
    UNION {
        LET m == {k \in DOMAIN aks : aks[k].tenant_id = t /\ k = key}
        IN  IF m = {} THEN {JoinRow(ts[t], NULL, NoKey)}
            ELSE {JoinRow(ts[t], k, aks[k]) : k \in m}
        : t \in DOMAIN ts}

\* Mutant: the join restricted to the keys that are active,
\* ... AND ak.api_key = $1 AND ak.is_active = true.
KeyLookupRowsActiveKeys(ts, aks, key) ==
    {row \in LeftJoin(ts, [k \in {a \in DOMAIN aks : aks[a].is_active} |-> aks[k]], key) :
        (row.api_key = key \/ row.matched = key) /\ row.is_active}

\* WHERE (t.api_key = $1 OR ak.api_key = $1) AND t.is_active = true
KeyLookupRows(ts, aks, key) ==
    {row \in LeftJoin(ts, aks, key) :
        (row.api_key = key \/ row.matched = key) /\ row.is_active}

\* Mutant: a rolling 24-hour window instead of the calendar day.
TodayRolling(t) == t - TicksPerDay + 1

\* new Date().toISOString().split('T')[0]: the clock cut down to its UTC date
Today(t) == (t \div TicksPerDay) * TicksPerDay

\* SELECT COUNT(*) FROM api_usage_logs WHERE tenant_id = $1 AND created_at >= $2
RECURSIVE SumOver(_, _)
SumOver(bag, rows) ==
    IF rows = {} THEN 0
    ELSE LET l == CHOOSE x \in rows : TRUE
         IN  CopiesIn(l, bag) + SumOver(bag, rows \ {l})

\* Mutant: created_at > $2, which misses the rows written at midnight.
RequestCountStrict(logs, tid, today) ==
    SumOver(logs, {l \in BagToSet(logs) : l.tenant_id = tid /\ l.created_at > today})

RequestCount(logs, tid, today) ==
    SumOver(logs, {l \in BagToSet(logs) : l.tenant_id = tid /\ l.created_at >= today})

\* -------------------------------------------------------------- requests
NoRow == [id |-> NULL]
NoTenant == [id |-> NULL]

\* A request before authenticateTenant has run.  status 0: no response sent.
\* apiKey is the credential the request presented, row is rows[0] of the key
\* lookup, limit and current are checkRateLimit's result; lookupFailed,
\* countFailed, updateFailed, insertFailed and logAttempted are history: which
\* of the request's queries were rejected, and whether the insert was tried.
IdleReq ==
    [pc |-> "idle", apiKey |-> NULL, row |-> NoRow,
     limit |-> 0, current |-> 0, status |-> 0, error |-> NULL, next |-> 0,
     tenant |-> NoTenant, authMethod |-> NULL,
     lookupFailed |-> FALSE, countFailed |-> FALSE, updateFailed |-> FALSE,
     insertFailed |-> FALSE, logAttempted |-> FALSE]

\* The handler returns.
Return(q) == [q EXCEPT !.pc = "done"]

\* return res.status(code).json({error: ...})
Respond(q, code, error) == Return([q EXCEPT !.status = code, !.error = error])

\* next()
CallNext(q) == Return([q EXCEPT !.next = @ + 1])

\* Requests of tenant tid that passed the quota check and have not inserted yet.
InFlight(rs, tid) == {r \in Requests : rs[r].pc = "log" /\ rs[r].tenant.id = tid}

Max(a, b) == IF a >= b THEN a ELSE b

\* What is recorded of the headers when the history is not kept.
NoHeaders == Headers(NULL, Absent, NULL)

Sockets == 1..MaxSockets
Joins == 1..MaxJoins
\* With the peers and their join-tenant events.
AllSockets == 1..(MaxSockets + MaxPeers)
AllJoins == 1..(MaxJoins + MaxPeers)

\* A socket before its 'connection' event, and a handler not yet invoked.
\* emitted: the events emitted to the client; received: the rooms whose
\* query-executed broadcasts reached it.  A handler's emitted is the event
\* it ended with; failed: one of its store calls rejected; attempt: how many
\* join-tenant events the client has sent, each after the previous one ended;
\* previous: the event the previous one ended with; replaced: the rows of
\* the socket that its upsert found.  closed: the socket has
\* disconnected; its id is never used again.
NoSocket == [connected |-> FALSE, closed |-> FALSE, tenantId |-> NULL,
             tenant |-> NoTenant, rooms |-> {}, emitted |-> {}, received |-> {}]
IdleJoin == [pc |-> "idle", socket |-> 0, tenantId |-> NULL, apiKey |-> NULL,
             emitted |-> NULL, failed |-> FALSE, attempt |-> 0, previous |-> NULL,
             replaced |-> {}]

\* What a client may send as data.tenantId and data.apiKey.
JoinTenantIds == {"t1", "t2", "t9"}
JoinApiKeys == {"k1", "k2", "s2", "bad"}

Init ==
    /\ tenants = InitTenants
    /\ api_keys = InitApiKeys
    /\ api_usage_logs = EmptyBag
    /\ reqs = [r \in Requests |-> IdleReq]
    /\ now = 0
    /\ maxInFlight = [t \in TenantIds |-> 0]
    /\ sockets = [s \in AllSockets |-> NoSocket]
    /\ joins = [j \in AllJoins |-> IdleJoin]
    /\ realtime_connections = [s \in AllSockets |-> {}]
    /\ presented = [r \in Requests |-> NoHeaders]
    /\ checks = <<>>
    /\ events = <<>>
    /\ swept = {}

\* Mutant: the expiry check left out.
ExpiredIgnored(row, t) == FALSE

\* auth.js 70-71
Expired(row, t) == row.expires_at /= {} /\ Val(row.expires_at) < t

\* Mutant: a rejected tenant query is caught and the request is let through
\* on the token's payload.
JwtBranchFailOpen(q, okLookup) ==
    IF ~JwtVerifies(q.apiKey, now) THEN Respond(q, 401, "Invalid token")
    ELSE LET rows == ActiveTenantById(tenants, SessionTokens[q.apiKey].tenantId)
         IN  IF ~okLookup
             THEN CallNext([q EXCEPT !.lookupFailed = TRUE,
                                     !.tenant = [id |-> SessionTokens[q.apiKey].tenantId],
                                     !.authMethod = "jwt"])
             ELSE IF rows = {} THEN Respond(q, 401, "Invalid token")
             ELSE CallNext([q EXCEPT !.tenant = CHOOSE t \in rows : TRUE,
                                     !.authMethod = "jwt"])

\* Mutant: the "Tenant not found or inactive" answer sent without return, so
\* that the handler goes on to attach rows[0] and to call next().
JwtBranchNoReturn(q, okLookup) ==
    IF ~JwtVerifies(q.apiKey, now) THEN Respond(q, 401, "Invalid token")
    ELSE LET rows == ActiveTenantById(tenants, SessionTokens[q.apiKey].tenantId)
         IN  IF ~okLookup
             THEN Respond([q EXCEPT !.lookupFailed = TRUE], 401, "Invalid token")
             ELSE IF rows = {}
             THEN CallNext([q EXCEPT !.status = 401, !.error = "Invalid token",
                                     !.authMethod = "jwt"])
             ELSE CallNext([q EXCEPT !.tenant = CHOOSE t \in rows : TRUE,
                                     !.authMethod = "jwt"])

\* Mutant: the tenant query of the session-token branch made outside the
\* inner try, so that its rejection reaches the outer catch.
JwtBranchRethrows(q, okLookup) ==
    IF ~JwtVerifies(q.apiKey, now) THEN Respond(q, 401, "Invalid token")
    ELSE LET rows == ActiveTenantById(tenants, SessionTokens[q.apiKey].tenantId)
         IN  IF ~okLookup
             THEN Respond([q EXCEPT !.lookupFailed = TRUE], 500, "Authentication failed")
             ELSE IF rows = {} THEN Respond(q, 401, "Invalid token")
             ELSE CallNext([q EXCEPT !.tenant = CHOOSE t \in rows : TRUE,
                                     !.authMethod = "jwt"])

\* auth.js 25-49: the session-token branch.  okLookup: the tenant query
\* returns (TRUE) or rejects (FALSE); either way the inner catch answers 401.
JwtBranch(q, okLookup) ==
    IF ~JwtVerifies(q.apiKey, now) THEN Respond(q, 401, "Invalid token")
    ELSE LET rows == ActiveTenantById(tenants, SessionTokens[q.apiKey].tenantId)
         IN  IF ~okLookup
             THEN Respond([q EXCEPT !.lookupFailed = TRUE], 401, "Invalid token")
             ELSE IF rows = {} THEN Respond(q, 401, "Invalid token")
             ELSE CallNext([q EXCEPT !.tenant = CHOOSE t \in rows : TRUE,
                                     !.authMethod = "jwt"])

\* auth.js 68-84 for rows[0] = row: the expiry check, then the awaited
\* UPDATE of last_used_at, whose rejection reaches the outer catch (116-122).
KeyBranch(q, row, okUpdate) ==
    IF Expired(row, now) THEN Respond(q, 401, "API key expired")
    ELSE IF TruthyCol(row.api_key_rate_limit) /\ ~okUpdate
    THEN Respond([q EXCEPT !.updateFailed = TRUE], 500, "Authentication failed")
    ELSE [q EXCEPT !.row = row, !.pc = "count"]

\* UPDATE api_keys SET last_used_at = CURRENT_TIMESTAMP WHERE api_key = $1
TouchKey(aks, key, t) ==
    [k \in DOMAIN aks |->
        IF k = key THEN [aks[k] EXCEPT !.last_used_at = {t}] ELSE aks[k]]

\* auth.js 8-84: the request arrives with apiKey extracted from its headers
\* and is resolved, up to the count query.
\* The lookups read tables no handler writes, and nothing reads last_used_at,
\* so the awaits in between are not interleaving points that can be observed.
\* rows[0] is any of the rows (the query has no ORDER BY).
ResolveStep(r, apiKey, okLookup, okUpdate) ==
    /\ reqs[r].pc = "idle"
    /\ \A p \in Requests : p < r => reqs[p].pc /= "idle"
    /\ LET q == [IdleReq EXCEPT !.apiKey = apiKey]
           rows == KeyLookupRows(tenants, api_keys, apiKey)
       IN  IF ~Truthy(apiKey) THEN
               /\ reqs' = [reqs EXCEPT ![r] = Respond(q, 401, "Authentication required")]
               /\ UNCHANGED api_keys
           ELSE IF StartsWithEyJ(apiKey) THEN
               /\ reqs' = [reqs EXCEPT ![r] = JwtBranch(q, okLookup)]
               /\ UNCHANGED api_keys
           ELSE IF ~okLookup THEN
               /\ reqs' = [reqs EXCEPT ![r] =
                      Respond([q EXCEPT !.lookupFailed = TRUE], 500, "Authentication failed")]
               /\ UNCHANGED api_keys
           ELSE IF rows = {} THEN
               /\ reqs' = [reqs EXCEPT ![r] = Respond(q, 401, "Invalid API key")]
               /\ UNCHANGED api_keys
           ELSE \E row \in rows :
               /\ reqs' = [reqs EXCEPT ![r] = KeyBranch(q, row, okUpdate)]
               /\ api_keys' =
                      IF ~Expired(row, now) /\ TruthyCol(row.api_key_rate_limit) /\ okUpdate
                      THEN TouchKey(api_keys, apiKey, now)
                      ELSE api_keys
    /\ UNCHANGED <<tenants, api_usage_logs, now, maxInFlight, channel>>

Resolve(r, apiKey, okLookup, okUpdate) ==
    ResolveStep(r, apiKey, okLookup, okUpdate) /\ UNCHANGED <<presented, checks>>

\* auth.js 8-84 with the extraction of lines 13-15 from the request's headers
\* and query, which are kept as history.
AuthenticateTenant(r, h, okLookup, okUpdate) ==
    /\ ResolveStep(r, ExtractApiKey(h), okLookup, okUpdate)
    /\ presented' = [presented EXCEPT ![r] = h]
    /\ UNCHANGED checks

\* auth.js 87, 105: tenant.api_key_rate_limit || tenant.max_requests_per_day
EffectiveLimit(row) ==
    IF TruthyCol(row.api_key_rate_limit) THEN Val(row.api_key_rate_limit)
    ELSE row.max_requests_per_day

\* Mutant: currentCount <= dailyLimit.
CheckRateLimitOffByOne(logs, tid, dailyLimit, t, ok) ==
    IF ok THEN
        LET currentCount == RequestCount(logs, tid, Today(t))
        IN  [allowed |-> currentCount <= dailyLimit, current |-> currentCount,
             limit |-> dailyLimit]
    ELSE [allowed |-> TRUE, current |-> 0, limit |-> dailyLimit]

\* Mutant: a failed count query rejects (fail-closed).
CheckRateLimitFailClosed(logs, tid, dailyLimit, t, ok) ==
    IF ok THEN
        LET currentCount == RequestCount(logs, tid, Today(t))
        IN  [allowed |-> currentCount < dailyLimit, current |-> currentCount,
             limit |-> dailyLimit]
    ELSE [allowed |-> FALSE, current |-> 0, limit |-> dailyLimit]

\* auth.js 128-152: checkRateLimit's result
CheckRateLimit(logs, tid, dailyLimit, t, ok) ==
    IF ok THEN
        LET currentCount == RequestCount(logs, tid, Today(t))
        IN  [allowed |-> currentCount < dailyLimit, current |-> currentCount,
             limit |-> dailyLimit]
    ELSE [allowed |-> TRUE, current |-> 0, limit |-> dailyLimit]

\* auth.js 97-106
ResolvedTenant(row) ==
    [id |-> row.id, plan |-> row.plan,
     max_requests_per_day |-> row.max_requests_per_day,
     permissions |-> row.permissions, rate_limit |-> EffectiveLimit(row)]

\* Mutant: the usage row is written before the quota decision, so a rejected
\* request leaves a row too.
RateLimitStepLogsRejected(r, ok) ==
    /\ reqs[r].pc = "count"
    /\ LET q == reqs[r]
           res == CheckRateLimit(api_usage_logs, q.row.id, EffectiveLimit(q.row), now, ok)
           q1 == [q EXCEPT !.limit = res.limit, !.current = res.current,
                           !.countFailed = ~ok]
       IN  /\ reqs' = [reqs EXCEPT ![r] =
                  IF ~res.allowed THEN Respond(q1, 429, "Rate limit exceeded")
                  ELSE [q1 EXCEPT !.tenant = ResolvedTenant(q.row),
                                  !.authMethod = "api_key", !.pc = "log"]]
           /\ api_usage_logs' =
                  IF ~res.allowed
                  THEN api_usage_logs (+) SetToBag({[tenant_id |-> q.row.id, created_at |-> now]})
                  ELSE api_usage_logs
    /\ UNCHANGED <<tenants, api_keys, now, channel, presented, checks>>

\* auth.js 86-112 up to the await inside logAPIUsage: the count query
\* returns (or rejects); on allowed the identity is attached.
RateLimitStep(r, ok) ==
    /\ reqs[r].pc = "count"
    /\ LET q == reqs[r]
           res == CheckRateLimit(api_usage_logs, q.row.id, EffectiveLimit(q.row), now, ok)
           q1 == [q EXCEPT !.limit = res.limit, !.current = res.current,
                           !.countFailed = ~ok]
       IN  reqs' = [reqs EXCEPT ![r] =
               IF ~res.allowed THEN Respond(q1, 429, "Rate limit exceeded")
               ELSE [q1 EXCEPT !.tenant = ResolvedTenant(q.row),
                               !.authMethod = "api_key", !.pc = "log"]]
    /\ UNCHANGED <<tenants, api_keys, api_usage_logs, now, channel, presented, checks>>

RateLimit(r, ok) == RateLimitStep(r, ok) /\ UNCHANGED maxInFlight

\* The same step, recording for each tenant the most requests seen at once
\* between their count query and their insert.
RateLimitTracked(r, ok) ==
    /\ RateLimitStep(r, ok)
    /\ maxInFlight' = [t \in TenantIds |->
           Max(maxInFlight[t], Cardinality(InFlight(reqs', t)))]

\* auth.js 165-182: the row inserted (created_at defaults to CURRENT_TIMESTAMP)
UsageRow(q, t) == [tenant_id |-> q.tenant.id, created_at |-> t]

\* Mutant: logAPIUsage without its try/catch: a rejected insert reaches the
\* outer catch and the request is answered 500.
LogAPIUsageUncaught(r, ok) ==
    /\ reqs[r].pc = "log"
    /\ LET q == [reqs[r] EXCEPT !.logAttempted = TRUE, !.insertFailed = ~ok]
       IN  /\ api_usage_logs' = IF ok THEN api_usage_logs (+) SetToBag({UsageRow(q, now)})
                                ELSE api_usage_logs
           /\ reqs' = [reqs EXCEPT ![r] =
                  IF ok THEN CallNext(q) ELSE Respond(q, 500, "Authentication failed")]
    /\ UNCHANGED <<tenants, api_keys, now, maxInFlight, channel, presented, checks>>

\* Mutant: next() called with the insert left to a later middleware.
LogAPIUsageDeferred(r, ok) ==
    /\ reqs[r].pc = "log"
    /\ api_usage_logs' = api_usage_logs
    /\ reqs' = [reqs EXCEPT ![r] = CallNext(reqs[r])]
    /\ UNCHANGED <<tenants, api_keys, now, maxInFlight, channel, presented, checks>>

\* auth.js 157-186, 114: the insert returns or rejects (swallowed), then next().
LogAPIUsage(r, ok) ==
    /\ reqs[r].pc = "log"
    /\ LET q == reqs[r]
       IN  /\ api_usage_logs' = IF ok THEN api_usage_logs (+) SetToBag({UsageRow(q, now)})
                                ELSE api_usage_logs
           /\ reqs' = [reqs EXCEPT ![r] =
                  CallNext([q EXCEPT !.logAttempted = TRUE, !.insertFailed = ~ok])]
    /\ UNCHANGED <<tenants, api_keys, now, maxInFlight, channel, presented, checks>>

\* Time passes.
Tick ==
    /\ now < MaxTime
    /\ now' = now + 1
    /\ UNCHANGED <<tenants, http, channel>>

\* ------------------------------------------------------ capability checks
\* The names requirePermission is mounted with, and the plans requirePlan is
\* mounted with.
PermissionNames == {"read", "write", "admin", "constructor"}
RequiredPlans == {"basic", "pro", "enterprise"}

\* The properties every JavaScript object inherits from Object.prototype
\* (two of them): permissions[name] finds them on an object that has no such
\* key of its own.
ObjectPrototype == {"constructor", "toString"}

\* req.tenant.permissions || {}: the session-token branch attaches the tenants
\* row, which has no permissions column.
PermissionsOf(tenant) ==
    IF "permissions" \in DOMAIN tenant THEN tenant.permissions ELSE {}

\* permissions[permission] is truthy.  A permission object is kept as the set
\* of its keys that hold a truthy value.
HasProperty(permissions, permission) ==
    permission \in permissions \/ permission \in ObjectPrototype

\* auth.js 217, 227-228: planHierarchy[plan] || 0
PlanLevel(plan) ==
    CASE plan = "basic" -> 1
      [] plan = "pro" -> 2
      [] plan = "enterprise" -> 3
      [] OTHER -> 0

CheckPassed == [status |-> 0, error |-> NULL, names |-> <<>>, passed |-> TRUE]
CheckFailed(code, error, names) ==
    [status |-> code, error |-> error, names |-> names, passed |-> FALSE]

\* Mutant: requirePermission without the !req.tenant guard, reading
\* req.tenant?.permissions and req.tenant?.plan.
RequirePermissionUnguarded(tenant, permission) ==
    IF tenant = NoTenant
    THEN IF HasProperty({}, permission) THEN CheckPassed
         ELSE CheckFailed(403, "Permission denied", <<permission>>)
    ELSE IF ~HasProperty(PermissionsOf(tenant), permission) /\ tenant.plan /= "enterprise"
    THEN CheckFailed(403, "Permission denied", <<permission>>)
    ELSE CheckPassed

\* auth.js 191-211: what requirePermission(permission) does with req.tenant
RequirePermissionResult(tenant, permission) ==
    IF tenant = NoTenant THEN CheckFailed(401, "Authentication required", <<>>)
    ELSE IF ~HasProperty(PermissionsOf(tenant), permission) /\ tenant.plan /= "enterprise"
    THEN CheckFailed(403, "Permission denied", <<permission>>)
    ELSE CheckPassed

\* Mutant: requirePlan that asks for exactly the required plan.
RequirePlanExact(tenant, requiredPlan) ==
    IF tenant = NoTenant THEN CheckFailed(401, "Authentication required", <<>>)
    ELSE IF PlanLevel(tenant.plan) /= PlanLevel(requiredPlan)
    THEN CheckFailed(403, "Plan upgrade required", <<requiredPlan, tenant.plan>>)
    ELSE CheckPassed

\* auth.js 216-239: what requirePlan(requiredPlan) does with req.tenant
RequirePlanResult(tenant, requiredPlan) ==
    IF tenant = NoTenant THEN CheckFailed(401, "Authentication required", <<>>)
    ELSE IF PlanLevel(tenant.plan) < PlanLevel(requiredPlan)
    THEN CheckFailed(403, "Plan upgrade required", <<requiredPlan, tenant.plan>>)
    ELSE CheckPassed

\* A request reaches a route that is mounted without authenticateTenant.
Unprotected(r) ==
    /\ reqs[r].pc = "idle"
    /\ \A p \in Requests : p < r => reqs[p].pc /= "idle"
    /\ reqs' = [reqs EXCEPT ![r].pc = "skipped"]
    /\ UNCHANGED <<tenants, api_keys, api_usage_logs, now, maxInFlight, channel,
                   presented, checks>>

\* The next middleware of request r's route may run: authenticateTenant has
\* called next() or is not mounted, and no check has answered the request.
ChainRuns(r) ==
    /\ \/ reqs[r].pc = "done" /\ reqs[r].next >= 1
       \/ reqs[r].pc = "skipped"
    /\ \A i \in DOMAIN checks : checks[i].req = r => checks[i].result.passed
    /\ Len(checks) < MaxChecks

CheckRecord(r, kind, arg, result) ==
    [req |-> r, kind |-> kind, arg |-> arg, tenant |-> reqs[r].tenant, result |-> result]

\* Mutant: requirePermission that stores the defaulted permission object back,
\* req.tenant.permissions = req.tenant.permissions || {}.
RequirePermissionStoresDefault(r, permission) ==
    /\ ChainRuns(r)
    /\ checks' = Append(checks, CheckRecord(r, "permission", permission,
                            RequirePermissionResult(reqs[r].tenant, permission)))
    /\ reqs' = [reqs EXCEPT ![r].tenant =
           IF @ = NoTenant THEN @
           ELSE [f \in DOMAIN @ \cup {"permissions"} |->
                    IF f = "permissions" THEN PermissionsOf(@) ELSE @[f]]]
    /\ UNCHANGED <<tenants, api_keys, api_usage_logs, now, maxInFlight, channel,
                   presented>>

\* auth.js 192-210: the middleware requirePermission(permission) runs.
RequirePermission(r, permission) ==
    /\ ChainRuns(r)
    /\ checks' = Append(checks, CheckRecord(r, "permission", permission,
                            RequirePermissionResult(reqs[r].tenant, permission)))
    /\ UNCHANGED <<tenants, api_keys, api_usage_logs, reqs, now, maxInFlight, channel,
                   presented>>

\* auth.js 219-238: the middleware requirePlan(requiredPlan) runs.
RequirePlan(r, requiredPlan) ==
    /\ ChainRuns(r)
    /\ checks' = Append(checks, CheckRecord(r, "plan", requiredPlan,
                            RequirePlanResult(reqs[r].tenant, requiredPlan)))
    /\ UNCHANGED <<tenants, api_keys, api_usage_logs, reqs, now, maxInFlight, channel,
                   presented>>

\* Mutant: the tenant lookup of join-tenant without AND is_active = true.
TenantByIdAndKeyAnyState(ts, id, key) ==
    {ts[t] : t \in {u \in DOMAIN ts : ts[u].id = id /\ ts[u].api_key = key}}

\* Mutant: the tenant lookup of join-tenant without AND api_key = $2.
TenantByIdOnly(ts, id, key) ==
    {ts[t] : t \in {u \in DOMAIN ts : ts[u].id = id /\ ts[u].is_active}}

\* auth.js 465: SELECT * FROM tenants WHERE id = $1 AND api_key = $2 AND is_active = true
TenantByIdAndKey(ts, id, key) ==
    {ts[t] : t \in {u \in DOMAIN ts :
                       ts[u].id = id /\ ts[u].api_key = key /\ ts[u].is_active}}

\* `tenant-${tenantId}`
Room(tenantId) == <<"tenant", tenantId>>

\* socket.emit(event, ...)
Emit(sk, event) == [sk EXCEPT !.emitted = @ \cup {event}]

\* Mutant: an upsert whose conflict branch only refreshes last_ping_at.
UpsertConnectionStaysInactive(rc, sid, tenantId, t) ==
    [rc EXCEPT ![sid] =
        IF rc[sid] = {}
        THEN {[tenant_id |-> tenantId, connection_id |-> sid, socket_id |-> sid,
               connected_at |-> t, last_ping_at |-> t, is_active |-> TRUE]}
        ELSE {[Val(rc[sid]) EXCEPT !.last_ping_at = t]}]

\* auth.js 476: INSERT ... ON CONFLICT (connection_id) DO UPDATE SET
\* last_ping_at = CURRENT_TIMESTAMP, is_active = true
UpsertConnection(rc, sid, tenantId, t) ==
    [rc EXCEPT ![sid] =
        IF rc[sid] = {}
        THEN {[tenant_id |-> tenantId, connection_id |-> sid, socket_id |-> sid,
               connected_at |-> t, last_ping_at |-> t, is_active |-> TRUE]}
        ELSE {[Val(rc[sid]) EXCEPT !.last_ping_at = t, !.is_active = TRUE]}]

\* auth.js 456-457: a client connects.
Connect(s) ==
    /\ ~sockets[s].connected /\ ~sockets[s].closed
    /\ \A p \in AllSockets : p < s => sockets[p].connected \/ sockets[p].closed
    /\ sockets' = [sockets EXCEPT ![s].connected = TRUE]
    /\ UNCHANGED <<tenants, http, now, joins, realtime_connections, events, swept>>

\* auth.js 459-467: a join-tenant event arrives and the handler runs up to
\* its first await.
JoinTenant(j, s, tenantId, apiKey) ==
    /\ joins[j].pc = "idle"
    /\ \A p \in AllJoins : p < j => joins[p].pc /= "idle"
    /\ sockets[s].connected
    /\ joins' = [joins EXCEPT ![j] =
           [pc |-> "lookup", socket |-> s, tenantId |-> tenantId, apiKey |-> apiKey,
            emitted |-> NULL, failed |-> FALSE, attempt |-> 1, previous |-> NULL,
            replaced |-> {}]]
    /\ UNCHANGED <<tenants, http, now, sockets, realtime_connections, events, swept>>

\* auth.js 459-467: the client whose join-tenant ended sends join-tenant again
\* on the same socket.
RejoinTenant(j, tenantId, apiKey) ==
    /\ joins[j].pc = "done"
    /\ joins[j].attempt < MaxAttempts
    /\ sockets[joins[j].socket].connected
    /\ joins' = [joins EXCEPT ![j] =
           [pc |-> "lookup", socket |-> joins[j].socket,
            tenantId |-> tenantId, apiKey |-> apiKey,
            emitted |-> NULL, failed |-> FALSE,
            attempt |-> joins[j].attempt + 1, previous |-> joins[j].emitted,
            replaced |-> {}]]
    /\ UNCHANGED <<tenants, http, now, sockets, realtime_connections, events, swept>>

\* auth.js 464-475, 487-494: the tenant query returns (or rejects); with a row
\* the socket joins the room and the upsert is issued.
JoinLookup(j, ok) ==
    /\ joins[j].pc = "lookup"
    /\ LET h == joins[j]
           sk == sockets[h.socket]
           rows == TenantByIdAndKey(tenants, h.tenantId, h.apiKey)
       IN  IF ~ok THEN
               /\ sockets' = [sockets EXCEPT ![h.socket] = Emit(sk, "error: Connection failed")]
               /\ joins' = [joins EXCEPT ![j].pc = "done", ![j].failed = TRUE,
                                         ![j].emitted = "error: Connection failed"]
           ELSE IF rows /= {} THEN
               /\ sockets' = [sockets EXCEPT ![h.socket] =
                      [sk EXCEPT !.rooms = @ \cup {Room(h.tenantId)},
                                 !.tenantId = h.tenantId,
                                 !.tenant = CHOOSE t \in rows : TRUE]]
               /\ joins' = [joins EXCEPT ![j].pc = "upsert"]
           ELSE
               /\ sockets' = [sockets EXCEPT ![h.socket] =
                      Emit(sk, "error: Invalid tenant credentials")]
               /\ joins' = [joins EXCEPT ![j].pc = "done",
                                         ![j].emitted = "error: Invalid tenant credentials"]
    /\ UNCHANGED <<tenants, http, now, realtime_connections, events, swept>>

\* auth.js 475-486, 491-494: the upsert returns (or rejects).
JoinUpsert(j, ok) ==
    /\ joins[j].pc = "upsert"
    /\ LET h == joins[j]
           sk == sockets[h.socket]
       IN  /\ realtime_connections' =
                  IF ok THEN UpsertConnection(realtime_connections, h.socket, h.tenantId, now)
                  ELSE realtime_connections
           /\ sockets' = [sockets EXCEPT ![h.socket] =
                  Emit(sk, IF ok THEN "joined" ELSE "error: Connection failed")]
    /\ joins' = [joins EXCEPT ![j].pc = "done", ![j].failed = ~ok,
                              ![j].replaced = realtime_connections[joins[j].socket],
                              ![j].emitted = IF ok THEN "joined"
                                             ELSE "error: Connection failed"]
    /\ UNCHANGED <<tenants, http, now, events, swept>>

\* A join-tenant on socket s has ended with 'joined'.
Joined(s) == "joined" \in sockets[s].emitted

\* Mutant: a broadcast that reaches every id listed in the room.
ReceiversListed(s, rooms) ==
    {p \in AllSockets \ {s} : sockets[p].rooms \cap rooms /= {}}

\* The sockets whose Connection row has is_active = false.
InactiveConnections ==
    {p \in AllSockets : realtime_connections[p] /= {}
                           /\ ~Val(realtime_connections[p]).is_active}

\* socket.to(room).emit(...): the connected sockets of the rooms, the sender
\* excepted.
Receivers(s, rooms) ==
    {p \in AllSockets \ {s} : sockets[p].connected /\ sockets[p].rooms \cap rooms /= {}}

\* The join-tenant handlers of socket s that are waiting for the store.
PendingJoins(s) ==
    {j \in AllJoins : joins[j].socket = s /\ joins[j].pc \in {"lookup", "upsert"}}

\* What is kept of an execute-query or test-connection event: the socket, its
\* tenantId and whether a join had ended with 'joined' when the handler ran,
\* the events emitted to the caller, the rooms notified, the sockets the
\* notification reached with the tenant each was bound to, the
\* join-tenant events of the socket whose handlers had not ended, and the
\* sockets whose Connection row was inactive.
EventRecord(s, event, emitted, broadcast) ==
    [socket |-> s, event |-> event, tenantId |-> sockets[s].tenantId,
     joined |-> Joined(s), emitted |-> emitted, broadcast |-> broadcast,
     delivered |-> {[socket |-> p, tenantId |-> sockets[p].tenantId,
                     rooms |-> sockets[p].rooms] : p \in Receivers(s, broadcast)},
     pending |-> {[tenantId |-> joins[j].tenantId, apiKey |-> joins[j].apiKey] :
                     j \in PendingJoins(s)},
     inactive |-> InactiveConnections]

\* auth.js 497-517: an execute-query event.  executeQueryRealtime (619-628)
\* resolves at once, so the handler is one step; the result goes to the caller
\* and query-executed to the other sockets of the room.  Without a payload
\* data.query throws after the result was emitted and the catch emits
\* query-error.
ExecuteQuery(s, data) ==
    /\ sockets[s].connected
    /\ Len(events) < MaxEvents
    /\ LET sk == sockets[s]
           room == Room(sk.tenantId)
       IN  IF sk.tenantId = NULL THEN
               /\ sockets' = [sockets EXCEPT ![s] = Emit(sk, "error: Not authenticated")]
               /\ events' = Append(events,
                      EventRecord(s, "execute-query", {"error: Not authenticated"}, {}))
           ELSE IF ~data THEN
               /\ sockets' = [sockets EXCEPT ![s] =
                      Emit(Emit(sk, "query-result"), "query-error")]
               /\ events' = Append(events,
                      EventRecord(s, "execute-query", {"query-result", "query-error"}, {}))
           ELSE
               /\ sockets' = [p \in AllSockets |->
                      IF p = s THEN Emit(sk, "query-result")
                      ELSE IF p \in Receivers(s, {room})
                      THEN [sockets[p] EXCEPT !.received = @ \cup {room}]
                      ELSE sockets[p]]
               /\ events' = Append(events,
                      EventRecord(s, "execute-query", {"query-result"}, {room}))
    /\ UNCHANGED <<tenants, http, now, joins, realtime_connections, swept>>

\* auth.js 519-532: a test-connection event; testDatabaseConnectionRealtime
\* (630-637) resolves at once.  Without a payload data.connectionId throws
\* and the catch emits connection-test-error.
TestConnection(s, data) ==
    /\ sockets[s].connected
    /\ Len(events) < MaxEvents
    /\ LET sk == sockets[s]
       IN  IF sk.tenantId = NULL THEN
               /\ sockets' = [sockets EXCEPT ![s] = Emit(sk, "error: Not authenticated")]
               /\ events' = Append(events,
                      EventRecord(s, "test-connection", {"error: Not authenticated"}, {}))
           ELSE
               LET answer == IF data THEN "connection-test-result"
                             ELSE "connection-test-error"
               IN  /\ sockets' = [sockets EXCEPT ![s] = Emit(sk, answer)]
                   /\ events' = Append(events,
                          EventRecord(s, "test-connection", {answer}, {}))
    /\ UNCHANGED <<tenants, http, now, joins, realtime_connections, swept>>

\* Mutant: a ping that reports a failed update to the client.
PingSurfaces(s, ok) ==
    /\ sockets[s].connected
    /\ sockets' = [sockets EXCEPT ![s] =
           IF sockets[s].tenantId /= NULL /\ ~ok
           THEN Emit(Emit(@, "pong"), "error: Connection failed")
           ELSE Emit(@, "pong")]
    /\ realtime_connections' =
           IF sockets[s].tenantId /= NULL /\ ok /\ realtime_connections[s] /= {}
           THEN [realtime_connections EXCEPT ![s] =
                    {[Val(@) EXCEPT !.last_ping_at = now]}]
           ELSE realtime_connections
    /\ UNCHANGED <<tenants, http, now, joins, events, swept>>

\* Mutant: a ping that writes the row with the upsert of join-tenant, so that
\* a missing row comes back.
PingStepUpserts(s, ok) ==
    /\ sockets[s].connected
    /\ sockets' = [sockets EXCEPT ![s] = Emit(@, "pong")]
    /\ realtime_connections' =
           IF sockets[s].tenantId /= NULL /\ ok
           THEN UpsertConnection(realtime_connections, s, sockets[s].tenantId, now)
           ELSE realtime_connections
    /\ UNCHANGED <<tenants, http, now, joins, swept>>

\* auth.js 534-544: a ping.  The update of last_ping_at is not awaited and
\* its failure is logged.
PingStep(s, ok) ==
    /\ sockets[s].connected
    /\ sockets' = [sockets EXCEPT ![s] = Emit(@, "pong")]
    /\ realtime_connections' =
           IF sockets[s].tenantId /= NULL /\ ok /\ realtime_connections[s] /= {}
           THEN [realtime_connections EXCEPT ![s] =
                    {[Val(@) EXCEPT !.last_ping_at = now]}]
           ELSE realtime_connections
    /\ UNCHANGED <<tenants, http, now, joins, swept>>

Ping(s, ok) == PingStep(s, ok) /\ UNCHANGED events

\* What is kept of a ping: the socket, what it was bound to and listed in,
\* whether a join had ended with 'joined', the row the ping found, and
\* whether its update succeeded.
PingRecord(s, ok) ==
    [socket |-> s, event |-> "ping", tenantId |-> sockets[s].tenantId,
     rooms |-> sockets[s].rooms, joined |-> Joined(s),
     row |-> realtime_connections[s], ok |-> ok]

\* The same with the ping kept.
PingTracked(s, ok) ==
    /\ Len(events) < MaxEvents
    /\ PingStep(s, ok)
    /\ events' = Append(events, PingRecord(s, ok))

\* Mutant: an update that flips is_active.
MarkInactiveFlips(rc, sid) ==
    [c \in DOMAIN rc |->
        IF rc[c] /= {} /\ Val(rc[c]).socket_id = sid
        THEN {[Val(rc[c]) EXCEPT !.is_active = ~@]}
        ELSE rc[c]]

\* auth.js 552: UPDATE realtime_connections SET is_active = false WHERE socket_id = $1
MarkInactive(rc, sid) ==
    [c \in DOMAIN rc |->
        IF rc[c] /= {} /\ Val(rc[c]).socket_id = sid
        THEN {[Val(rc[c]) EXCEPT !.is_active = FALSE]}
        ELSE rc[c]]

\* auth.js 546-558: the disconnect handler, which logs a failure of its update.
DisconnectHandler(rc, sid, ok) == IF ok THEN MarkInactive(rc, sid) ELSE rc

\* auth.js 546-558: the socket closes (it has left its rooms by then) and the
\* disconnect handler runs.
Disconnect(s, ok) ==
    /\ sockets[s].connected
    /\ sockets' = [sockets EXCEPT ![s].connected = FALSE, ![s].closed = TRUE,
                                  ![s].rooms = {}]
    /\ realtime_connections' = DisconnectHandler(realtime_connections, s, ok)
    /\ UNCHANGED <<tenants, http, now, joins, events, swept>>

\* Mutant: a cleanup that deletes inactive rows only.
SweptInactiveOnly(row, t) == ~row.is_active

\* Mutant: a threshold that a heartbeat of exactly ten minutes ago has passed.
SweptAtThreshold(row, t) == row.last_ping_at <= t - StaleMinutes \/ ~row.is_active

\* auth.js 564: last_ping_at < NOW() - INTERVAL '10 minutes' OR is_active = false
Swept(row, t) == row.last_ping_at < t - StaleMinutes \/ ~row.is_active

\* auth.js 563-565: DELETE FROM realtime_connections WHERE ...
DeleteSwept(rc, t) ==
    [c \in DOMAIN rc |-> IF rc[c] /= {} /\ Swept(Val(rc[c]), t) THEN {} ELSE rc[c]]

\* auth.js 561-570: one run of the cleanup interval; a failure is logged.
SweepStep(ok) ==
    /\ realtime_connections' =
           IF ok THEN DeleteSwept(realtime_connections, now) ELSE realtime_connections
    /\ UNCHANGED <<tenants, http, now, sockets, joins, events>>

Sweep(ok) == SweepStep(ok) /\ UNCHANGED swept

\* The same with the run kept: when it ran, whether its query succeeded, and
\* the registry before and after.
SweepTracked(ok) ==
    /\ SweepStep(ok)
    /\ swept' = {[at |-> now, ok |-> ok, before |-> realtime_connections,
                  after |-> realtime_connections']}

\* A minute passes.
Minute ==
    /\ now < MaxMinutes
    /\ now' = now + 1
    /\ UNCHANGED <<tenants, http, channel>>

Next ==
    \/ \E r \in Requests, apiKey \in ExtractedKeys, okLookup, okUpdate \in BOOLEAN :
           Resolve(r, apiKey, okLookup, okUpdate)
    \/ \E r \in Requests, ok \in BOOLEAN : RateLimit(r, ok)
    \/ \E r \in Requests, ok \in BOOLEAN : LogAPIUsage(r, ok)
    \/ Tick

Spec == Init /\ [][Next]_vars

\* The same program with the history variable maxInFlight kept.
NextRace ==
    \/ \E r \in Requests, apiKey \in ExtractedKeys, okLookup, okUpdate \in BOOLEAN :
           Resolve(r, apiKey, okLookup, okUpdate)
    \/ \E r \in Requests, ok \in BOOLEAN : RateLimitTracked(r, ok)
    \/ \E r \in Requests, ok \in BOOLEAN : LogAPIUsage(r, ok)
    \/ Tick

SpecRace == Init /\ [][NextRace]_vars

\* The middleware and the channel side by side.
NextChannel ==
    \/ \E r \in Requests, apiKey \in ExtractedKeys, okLookup, okUpdate \in BOOLEAN :
           Resolve(r, apiKey, okLookup, okUpdate)
    \/ \E r \in Requests, ok \in BOOLEAN : RateLimit(r, ok)
    \/ \E r \in Requests, ok \in BOOLEAN : LogAPIUsage(r, ok)
    \/ \E s \in Sockets : Connect(s)
    \/ \E j \in Joins, s \in Sockets, tenantId \in JoinTenantIds, apiKey \in JoinApiKeys :
           JoinTenant(j, s, tenantId, apiKey)
    \/ \E j \in Joins, ok \in BOOLEAN : JoinLookup(j, ok)
    \/ \E j \in Joins, ok \in BOOLEAN : JoinUpsert(j, ok)

SpecChannel == Init /\ [][NextChannel]_vars

\* The middleware driven by whole requests: headers and query.
NextExtract ==
    \/ \E r \in Requests, h \in RequestHeaders, okLookup, okUpdate \in BOOLEAN :
           AuthenticateTenant(r, h, okLookup, okUpdate)
    \/ \E r \in Requests, ok \in BOOLEAN : RateLimit(r, ok)
    \/ \E r \in Requests, ok \in BOOLEAN : LogAPIUsage(r, ok)

SpecExtract == Init /\ [][NextExtract]_vars

\* The channel alone: sockets connect, join and send events, and every store
\* call of a handler may fail.
NextSocket ==
    \/ \E s \in Sockets : Connect(s)
    \/ \E j \in Joins, s \in Sockets, tenantId \in JoinTenantIds, apiKey \in JoinApiKeys :
           JoinTenant(j, s, tenantId, apiKey)
    \/ \E j \in Joins, ok \in BOOLEAN : JoinLookup(j, ok)
    \/ \E j \in Joins, ok \in BOOLEAN : JoinUpsert(j, ok)
    \/ \E j \in Joins, tenantId \in JoinTenantIds, apiKey \in JoinApiKeys :
           RejoinTenant(j, tenantId, apiKey)
    \/ \E s \in Sockets, data \in BOOLEAN : ExecuteQuery(s, data)
    \/ \E s \in Sockets, data \in BOOLEAN : TestConnection(s, data)

SpecSocket == Init /\ [][NextSocket]_vars

\* What the clients that share rooms send as data.tenantId and data.apiKey.
RoomJoins == {<<"t1", "k1">>, <<"t4", "k4">>}

\* Several sockets on the channel, with the store available: they join, join
\* again, send queries and disconnect.
NextRoom ==
    \/ \E s \in AllSockets : Connect(s)
    \/ \E j \in AllJoins, s \in AllSockets, d \in RoomJoins : JoinTenant(j, s, d[1], d[2])
    \/ \E j \in AllJoins : JoinLookup(j, TRUE)
    \/ \E j \in AllJoins : JoinUpsert(j, TRUE)
    \/ \E j \in AllJoins, d \in RoomJoins : RejoinTenant(j, d[1], d[2])
    \/ \E s \in AllSockets : ExecuteQuery(s, TRUE)
    \/ \E s \in AllSockets : Disconnect(s, TRUE)

SpecRoom == Init /\ [][NextRoom]_vars

\* What a client sends as data.tenantId and data.apiKey over its life.
LifeJoins == {<<"t1", "k1">>, <<"t1", "bad">>}

\* The life of a connection, minute by minute: it connects, joins, sends
\* queries and pings and disconnects, the cleanup interval runs, and every
\* store call may fail.
NextLife ==
    \/ \E s \in Sockets : Connect(s)
    \/ \E j \in Joins, s \in Sockets, d \in LifeJoins : JoinTenant(j, s, d[1], d[2])
    \/ \E j \in Joins, ok \in BOOLEAN : JoinLookup(j, ok)
    \/ \E j \in Joins, ok \in BOOLEAN : JoinUpsert(j, ok)
    \/ \E j \in Joins, d \in LifeJoins : RejoinTenant(j, d[1], d[2])
    \/ \E s \in Sockets, data \in BOOLEAN : ExecuteQuery(s, data)
    \/ \E s \in Sockets, ok \in BOOLEAN : Ping(s, ok)
    \/ \E s \in Sockets, ok \in BOOLEAN : Disconnect(s, ok)
    \/ \E ok \in BOOLEAN : Sweep(ok)
    \/ Minute

SpecLife == Init /\ [][NextLife]_vars

\* What a registry may hold for a connection at time t: nothing, or a row
\* written by a join and refreshed since, active or not.
RegistryEntries(t) ==
    {[row |-> FALSE, last_ping_at |-> 0, is_active |-> FALSE]}
        \cup [row : {TRUE}, last_ping_at : 0..t, is_active : BOOLEAN]

RegistryRows(c, e) ==
    IF e.row
    THEN {[tenant_id |-> "t1", connection_id |-> c, socket_id |-> c,
           connected_at |-> 0, last_ping_at |-> e.last_ping_at,
           is_active |-> e.is_active]}
    ELSE {}

\* The cleanup interval over the registry a process finds when it starts: no
\* socket is connected, and rows of any age are there.
InitSweep ==
    /\ tenants = InitTenants
    /\ api_keys = InitApiKeys
    /\ api_usage_logs = EmptyBag
    /\ reqs = [r \in Requests |-> IdleReq]
    /\ maxInFlight = [t \in TenantIds |-> 0]
    /\ sockets = [s \in AllSockets |-> NoSocket]
    /\ joins = [j \in AllJoins |-> IdleJoin]
    /\ presented = [r \in Requests |-> NoHeaders]
    /\ checks = <<>>
    /\ events = <<>>
    /\ swept = {}
    /\ now \in 0..MaxMinutes
    /\ \E e \in [AllSockets -> RegistryEntries(now)] :
          realtime_connections = [c \in AllSockets |-> RegistryRows(c, e[c])]

NextSweep ==
    \/ \E ok \in BOOLEAN : SweepTracked(ok)
    \/ Minute

SpecSweep == InitSweep /\ [][NextSweep]_vars

\* A connection lives in the first MaxTime minutes: it joins, pings and
\* disconnects, and every store call may fail.  The cleanup interval keeps
\* running as time goes on: the timer fires again and again, and the store
\* is available again and again.
NextReclaim ==
    \/ /\ now <= MaxTime
       /\ \/ \E s \in Sockets : Connect(s)
          \/ \E j \in Joins, s \in Sockets, d \in LifeJoins : JoinTenant(j, s, d[1], d[2])
          \/ \E j \in Joins, ok \in BOOLEAN : JoinLookup(j, ok)
          \/ \E j \in Joins, ok \in BOOLEAN : JoinUpsert(j, ok)
          \/ \E j \in Joins, d \in LifeJoins : RejoinTenant(j, d[1], d[2])
          \/ \E s \in Sockets, ok \in BOOLEAN : Ping(s, ok)
          \/ \E s \in Sockets, ok \in BOOLEAN : Disconnect(s, ok)
    \/ \E ok \in BOOLEAN : SweepTracked(ok)
    \/ Minute

SpecReclaim ==
    /\ Init /\ [][NextReclaim]_vars
    /\ WF_vars(Minute)
    /\ WF_vars(SweepTracked(TRUE))

\* Heartbeats of several sockets of one tenant in the first MaxTime minutes:
\* they connect, join, ping and disconnect; the upsert of a join and the
\* update of a ping may fail.
NextBeat ==
    \/ \E s \in AllSockets : Connect(s)
    \/ \E j \in AllJoins, s \in AllSockets : JoinTenant(j, s, "t1", "k1")
    \/ \E j \in AllJoins : JoinLookup(j, TRUE)
    \/ \E j \in AllJoins, ok \in BOOLEAN : JoinUpsert(j, ok)
    \/ \E s \in AllSockets, ok \in BOOLEAN : Ping(s, ok)
    \/ \E s \in AllSockets : Disconnect(s, TRUE)
    \/ (now < MaxTime /\ Minute)

SpecBeat == Init /\ [][NextBeat]_vars

\* A connection that outlives its row: the socket connects, joins and joins
\* again with the store available, and pings; the cleanup interval runs as
\* the minutes pass; the update of a ping and the cleanup may fail.
NextStale ==
    \/ \E s \in Sockets : Connect(s)
    \/ \E j \in Joins, s \in Sockets : JoinTenant(j, s, "t1", "k1")
    \/ \E j \in Joins : JoinLookup(j, TRUE)
    \/ \E j \in Joins : JoinUpsert(j, TRUE)
    \/ \E j \in Joins : RejoinTenant(j, "t1", "k1")
    \/ \E s \in Sockets, ok \in BOOLEAN : PingTracked(s, ok)
    \/ \E ok \in BOOLEAN : Sweep(ok)
    \/ Minute

SpecStale == Init /\ [][NextStale]_vars

\* The credentials presented to the routes that carry capability checks.
GateCredentials ==
    {"k1", "kx", "s1", "s3", "s5", "k4", "k5", "k2", "eyJ.t1", "eyJ.t2"}

\* authenticateTenant with the store available, followed by the capability
\* checks of the route.
NextGate ==
    \/ \E r \in Requests, apiKey \in GateCredentials : Resolve(r, apiKey, TRUE, TRUE)
    \/ \E r \in Requests : RateLimit(r, TRUE)
    \/ \E r \in Requests : LogAPIUsage(r, TRUE)
    \/ \E r \in Requests : Unprotected(r)
    \/ \E r \in Requests, permission \in PermissionNames : RequirePermission(r, permission)
    \/ \E r \in Requests, requiredPlan \in RequiredPlans : RequirePlan(r, requiredPlan)

SpecGate == Init /\ [][NextGate]_vars

\* The credentials presented to the routes whose requests are recorded.
AuditCredentials == {"k1", "s1", "k4", "eyJ.t1"}

\* authenticateTenant followed by the capability checks of the route, with
\* the lookups and the count available and an insert that may fail.
NextAudit ==
    \/ \E r \in Requests, apiKey \in AuditCredentials : Resolve(r, apiKey, TRUE, TRUE)
    \/ \E r \in Requests : RateLimit(r, TRUE)
    \/ \E r \in Requests, ok \in BOOLEAN : LogAPIUsage(r, ok)
    \/ \E r \in Requests, permission \in PermissionNames : RequirePermission(r, permission)
    \/ \E r \in Requests, requiredPlan \in RequiredPlans : RequirePlan(r, requiredPlan)

SpecAudit == Init /\ [][NextAudit]_vars

\* Requests with opaque keys made one after another within one day, each
\* completing before the next starts, with the store available.
NextSeq ==
    \/ \E r \in Requests, apiKey \in ExtractedKeys \cap OpaqueKeys :
           /\ \A p \in Requests : reqs[p].pc \in {"idle", "done"}
           /\ Resolve(r, apiKey, TRUE, TRUE)
    \/ \E r \in Requests : RateLimit(r, TRUE)
    \/ \E r \in Requests : LogAPIUsage(r, TRUE)
    \/ (now + 1 < TicksPerDay /\ Tick)

SpecSeq == Init /\ [][NextSeq]_vars

\* ------------------------------------------------------------ the claims
\* The requests whose quota was evaluated, and those admitted by it.
Evaluated(r) == reqs[r].pc = "log" \/ (reqs[r].pc = "done" /\ reqs[r].row.id /= NULL)
Admitted(r) == reqs[r].pc = "log" \/ (reqs[r].pc = "done" /\ reqs[r].next >= 1)
Rejected(r) == reqs[r].pc = "done" /\ reqs[r].status /= 0

\* Rows of one tenant, of any day and of one day.
TotalRows(tid) ==
    SumOver(api_usage_logs, {l \in BagToSet(api_usage_logs) : l.tenant_id = tid})
DayOf(t) == t \div TicksPerDay
RowsOfDay(tid, d) ==
    SumOver(api_usage_logs,
            {l \in BagToSet(api_usage_logs) : l.tenant_id = tid /\ DayOf(l.created_at) = d})

\* The quota a resolved identity is subject to: the key's override when the
\* identity carries one, else the tenant's daily quota.
QuotaOf(r) ==
    IF reqs[r].authMethod = "api_key" THEN reqs[r].tenant.rate_limit
    ELSE reqs[r].tenant.max_requests_per_day

\* C2: a request is admitted (passes the quota gate, towards next()) only in
\* a state where its tenant's count of today's rows is below its effective
\* limit, whichever credential kind it presented; a failed count query aside.
C2_QuotaGateForEveryCredentialKind ==
    [][\A r \in Requests :
          (~Admitted(r) /\ Admitted(r)' /\ ~reqs'[r].countFailed)
          => RowsOfDay(reqs'[r].tenant.id, DayOf(now)) < QuotaOf(r)']_vars

\* C3: every admitted request had its UsageRecord append attempted before
\* next(), so with no failed insert each tenant has as many rows as requests
\* admitted for it.
C3_EveryAdmittedRequestRecorded ==
    /\ \A r \in Requests : reqs[r].next >= 1 => reqs[r].logAttempted
    /\ (\A r \in Requests : ~reqs[r].insertFailed) =>
           \A t \in TenantIds :
               TotalRows(t) = Cardinality({r \in Requests :
                                  reqs[r].next >= 1 /\ reqs[r].tenant.id = t})

\* C10: a request whose last_used_at update failed is not answered with an
\* error status because of it: it goes on to the quota check.
C10_LastUsedFailureNeverFailsRequest ==
    \A r \in Requests : reqs[r].updateFailed => reqs[r].status /= 500

InactiveTenants == {t \in TenantIds : ~tenants[t].is_active}

\* The credentials derived from tenant t: its primary key, its secondary keys
\* and the validly signed session tokens carrying its id.
DerivedFrom(t) ==
    {tenants[t].api_key}
    \cup {k \in DOMAIN api_keys : api_keys[k].tenant_id = t}
    \cup {c \in DOMAIN SessionTokens :
             SessionTokens[c].signed /\ SessionTokens[c].tenantId = t}

\* No socket holds the id, the room or a connection row of an inactive tenant.
NoChannelIdentityOfInactive ==
    \A s \in Sockets, t \in InactiveTenants :
        /\ sockets[s].tenantId /= t
        /\ Room(t) \notin sockets[s].rooms
        /\ \A row \in realtime_connections[s] : row.tenant_id /= t

MaxOf(S) == CHOOSE x \in S : \A y \in S : y <= x

\* C4: requests made one after another within a day, store available: each
\* observes as count the number of its tenant's requests admitted before it,
\* is admitted exactly when that count is below its limit L and is otherwise
\* answered 429 reporting L; the tenant's rows never exceed the limit of an
\* admitted request.
C4_SequentialAdmission ==
    /\ \A r \in Requests : Evaluated(r) =>
          LET before == {p \in Requests :
                            p < r /\ Admitted(p) /\ reqs[p].row.id = reqs[r].row.id}
          IN  /\ reqs[r].current = Cardinality(before)
              /\ Admitted(r) <=> Cardinality(before) < reqs[r].limit
              /\ ~Admitted(r) => reqs[r].status = 429
    /\ \A t \in TenantIds :
          LET limits == {reqs[r].limit : r \in {p \in Requests :
                                             Admitted(p) /\ reqs[p].row.id = t}}
          IN  TotalRows(t) <= IF limits = {} THEN 0 ELSE MaxOf(limits)

\* C4 witness: after L >= 1 admitted requests, request L+1 observed count L
\* and was answered 429.
C4_Witness ==
    \E r \in Requests :
        /\ reqs[r].status = 429 /\ reqs[r].limit >= 1
        /\ reqs[r].current = reqs[r].limit
        /\ TotalRows(reqs[r].row.id) = reqs[r].limit

\* The limits under which requests of a tenant were admitted by a count.
LimitsAdmitted(t) ==
    {reqs[r].limit : r \in {p \in Requests :
                         Admitted(p) /\ reqs[p].authMethod = "api_key"
                         /\ reqs[p].tenant.id = t}}

C6_RejectedWritesNoRecord ==
    /\ \A r \in Requests : reqs[r].status = 429 => ~reqs[r].logAttempted
    /\ \A t \in TenantIds :
          TotalRows(t) <= Cardinality({r \in Requests :
                              /\ reqs[r].pc = "done" /\ reqs[r].next >= 1
                              /\ reqs[r].authMethod = "api_key"
                              /\ reqs[r].tenant.id = t})

\* C6 witness: a request was answered 429 for a tenant that has a row.
C6_Witness ==
    \E r \in Requests :
        reqs[r].status = 429 /\ ~reqs[r].countFailed /\ TotalRows(reqs[r].row.id) >= 1

C8_QuotaFailOpen ==
    \A r \in Requests : reqs[r].countFailed =>
        /\ reqs[r].status = 0
        /\ reqs[r].pc \in {"log", "done"}
        /\ reqs[r].tenant.id /= NULL
        /\ reqs[r].pc = "done" => reqs[r].next = 1

\* C8 witness: a request was admitted on a failed count query although its
\* tenant's limit is 0.
C8_Witness ==
    \E r \in Requests :
        reqs[r].countFailed /\ reqs[r].next = 1 /\ reqs[r].limit = 0

\* C9: a request whose usage insert failed had next() called with the
\* identity attached and no response sent, and failed inserts left no row:
\* the table holds one row per successful insert.
C9_RecorderFailureSwallowed ==
    /\ \A r \in Requests : reqs[r].insertFailed =>
          /\ reqs[r].pc = "done" /\ reqs[r].next = 1 /\ reqs[r].status = 0
          /\ reqs[r].tenant.id /= NULL
    /\ BagCardinality(api_usage_logs) =
          Cardinality({r \in Requests : reqs[r].logAttempted /\ ~reqs[r].insertFailed})

\* C9 witness: an insert failed, next() was called and the table is empty.
C9_Witness ==
    \E r \in Requests :
        reqs[r].insertFailed /\ reqs[r].next = 1 /\ api_usage_logs = EmptyBag

\* The secondary keys whose expiry is set and before time t.
ExpiredKeys(t) ==
    {k \in DOMAIN api_keys :
        api_keys[k].expires_at /= {} /\ Val(api_keys[k].expires_at) < t}

\* Request r arrives in this step.
Arrives(r) == reqs[r].pc = "idle" /\ reqs'[r].pc /= "idle"

C12_LookupFailureIsFatal ==
    \A r \in Requests : reqs[r].lookupFailed =>
        /\ reqs[r].pc = "done" /\ reqs[r].next = 0
        /\ reqs[r].tenant = NoTenant /\ reqs[r].authMethod = NULL
        /\ reqs[r].status \in {401, 500}

\* C12 witness: the lookup failed for a valid session token of an active
\* tenant and for the primary key of an active tenant, and both requests were
\* refused.
C12_Witness ==
    /\ \E r \in Requests :
          /\ reqs[r].lookupFailed /\ StartsWithEyJ(reqs[r].apiKey)
          /\ ActiveTenantById(tenants, SessionTokens[reqs[r].apiKey].tenantId) /= {}
          /\ reqs[r].status = 401
    /\ \E r \in Requests :
          /\ reqs[r].lookupFailed /\ ~StartsWithEyJ(reqs[r].apiKey)
          /\ KeyLookupRows(tenants, api_keys, reqs[r].apiKey) /= {}
          /\ reqs[r].status = 500

\* The authorization header's text with a leading "Bearer " taken off.
StripBearerPrefix(a) ==
    IF ~a.present THEN NULL
    ELSE IF a.chunks /= <<>> /\ Head(a.chunks) = BearerPrefix THEN Text(Tail(a.chunks))
    ELSE Text(a.chunks)

\* The first non-empty value of a sequence, NULL when there is none.
FirstNonEmpty(vals) ==
    LET found == {i \in 1..Len(vals) : vals[i] /= NULL /\ vals[i] /= ""}
    IN  IF found = {} THEN NULL
        ELSE vals[CHOOSE i \in found : \A j \in found : i <= j]

\* C13: the credential a request is resolved with is the first non-empty of
\* its X-API-Key header, its Authorization header without the Bearer prefix
\* and its api_key query parameter; with none of them it is answered 401
\* "Authentication required", and a failing store does not change that answer.
C13_ExtractionPriority ==
    \A r \in Requests : reqs[r].pc /= "idle" =>
        LET h == presented[r]
            expected == FirstNonEmpty(<<h.x_api_key, StripBearerPrefix(h.authorization),
                                        h.api_key>>)
        IN  IF expected /= NULL THEN reqs[r].apiKey = expected
            ELSE /\ reqs[r].pc = "done" /\ reqs[r].next = 0
                 /\ reqs[r].status = 401 /\ reqs[r].error = "Authentication required"
                 /\ reqs[r].tenant = NoTenant /\ ~reqs[r].lookupFailed

\* C13 witness: one request carried a key header and a different bearer
\* value and query parameter and was resolved with the key header; another
\* carried only empty values and was answered 401.
C13_Witness ==
    /\ \E r \in Requests :
          /\ reqs[r].pc /= "idle"
          /\ presented[r].x_api_key \in Credentials
          /\ StripBearerPrefix(presented[r].authorization)
                 \notin {NULL, "", presented[r].x_api_key}
          /\ presented[r].api_key \notin {NULL, "", presented[r].x_api_key}
          /\ reqs[r].apiKey = presented[r].x_api_key
    /\ \E r \in Requests :
          /\ presented[r] = Headers("", Header(<<BearerPrefix>>), "")
          /\ reqs[r].status = 401 /\ reqs[r].error = "Authentication required"

\* C14: for every identity and every capability name, requirePermission(name)
\* passes exactly when the identity's permission set grants the name or the
\* tenant's plan is enterprise, and answers 403 otherwise.
C14_PermissionCheck ==
    \A i \in DOMAIN checks :
        (checks[i].kind = "permission" /\ checks[i].tenant /= NoTenant) =>
            /\ checks[i].result.passed <=>
                   \/ checks[i].arg \in PermissionsOf(checks[i].tenant)
                   \/ checks[i].tenant.plan = "enterprise"
            /\ ~checks[i].result.passed => checks[i].result.status = 403

\* The plans from the lowest to the highest.
PlanOrder == <<"basic", "pro", "enterprise">>
PlanRank(p) == CHOOSE i \in DOMAIN PlanOrder : PlanOrder[i] = p

\* C15: for every identity with plan p and every required plan m,
\* requirePlan(m) passes exactly when p is at or above m in the order
\* basic < pro < enterprise, and otherwise answers 403 "Plan upgrade required"
\* naming m and p.
C15_PlanCheck ==
    \A i \in DOMAIN checks :
        (checks[i].kind = "plan" /\ checks[i].tenant /= NoTenant) =>
            LET p == checks[i].tenant.plan
                m == checks[i].arg
            IN  /\ checks[i].result.passed <=> PlanRank(p) >= PlanRank(m)
                /\ ~checks[i].result.passed =>
                       /\ checks[i].result.status = 403
                       /\ checks[i].result.error = "Plan upgrade required"
                       /\ checks[i].result.names = <<m, p>>

\* C15 witness: a pro identity passed requirePlan(pro) and was then refused by
\* requirePlan(enterprise).
C15_Witness ==
    \E i, j \in DOMAIN checks :
        /\ i < j /\ checks[i].req = checks[j].req
        /\ checks[i].tenant.id /= NULL /\ checks[i].tenant.plan = "pro"
        /\ checks[i].kind = "plan" /\ checks[i].arg = "pro" /\ checks[i].result.passed
        /\ checks[j].kind = "plan" /\ checks[j].arg = "enterprise"
        /\ checks[j].result.status = 403

\* C16: requirePermission and requirePlan run on a request that has no
\* identity attached answer 401 "Authentication required" and do not call
\* next(), whatever the permission name or the required plan.
C16_ChecksRequireIdentity ==
    \A i \in DOMAIN checks : checks[i].tenant = NoTenant =>
        /\ ~checks[i].result.passed
        /\ checks[i].result.status = 401
        /\ checks[i].result.error = "Authentication required"

\* C16 witness: a requirePermission and a requirePlan were each run on a
\* request without identity and answered 401.
C16_Witness ==
    \E i, j \in DOMAIN checks :
        /\ checks[i].kind = "permission" /\ checks[j].kind = "plan"
        /\ checks[i].tenant = NoTenant /\ checks[j].tenant = NoTenant
        /\ reqs[checks[i].req].tenant = NoTenant /\ reqs[checks[j].req].tenant = NoTenant
        /\ checks[i].result.status = 401 /\ checks[j].result.status = 401

\* C17: a capability check leaves every request's identity and the tables
\* tenants, api_keys, api_usage_logs and realtime_connections as they were,
\* and two evaluations of the same check on the same identity give the same
\* outcome.
C17_ChecksArePure ==
    /\ [][checks' /= checks =>
              /\ UNCHANGED <<tenants, api_keys, api_usage_logs, realtime_connections>>
              /\ \A r \in Requests : reqs'[r].tenant = reqs[r].tenant]_vars
    /\ [](\A i, j \in DOMAIN checks :
              (/\ checks[i].kind = checks[j].kind /\ checks[i].arg = checks[j].arg
               /\ checks[i].tenant = checks[j].tenant)
              => checks[i].result = checks[j].result)

\* C17 witness: the same check was evaluated twice on one request that has an
\* identity, while the usage table holds a row.
C17_Witness ==
    \E i, j \in DOMAIN checks :
        /\ i < j /\ checks[i].req = checks[j].req
        /\ checks[i].kind = checks[j].kind /\ checks[i].arg = checks[j].arg
        /\ checks[j].tenant /= NoTenant
        /\ reqs[checks[j].req].tenant = checks[i].tenant
        /\ api_usage_logs /= EmptyBag


\* Join j ends in this step.
JoinEnds(j) == joins[j].pc /= "done" /\ joins'[j].pc = "done"

\* C18: a join-tenant that ends by emitting an error on a socket that no
\* earlier join authenticated leaves the socket without a bound tenant id and
\* outside every tenant room.
C18_FailedJoinLeavesConnected ==
    [][\A j \in Joins :
          (JoinEnds(j) /\ joins'[j].emitted /= "joined" /\ ~Joined(joins[j].socket))
              => /\ sockets'[joins[j].socket].tenantId = NULL
                 /\ sockets'[joins[j].socket].rooms = {}]_vars
\* An active tenant has the supplied id and the supplied value as primary key.
Matches(tenantId, apiKey) ==
    \E t \in TenantIds :
        tenants[t].is_active /\ tenants[t].id = tenantId /\ tenants[t].api_key = apiKey

\* C19 as stated: a join ends with 'joined' exactly when an active tenant
\* matches the supplied id and credential.
C19_JoinIffMatch ==
    \A j \in Joins :
        joins[j].pc = "done"
            => (joins[j].emitted = "joined" <=> Matches(joins[j].tenantId, joins[j].apiKey))

\* C19: a join ends with 'joined' exactly when an active tenant matches the
\* supplied id and credential and neither store call of the join rejects; a
\* join whose lookup finds no such tenant ends by emitting 'Invalid tenant
\* credentials' and changes nothing else: the socket stays connected with the
\* same tenant id and rooms, and no Connection row is created or changed.
C19_JoinIffMatchAndStoreUp ==
    [][\A j \in Joins :
          JoinEnds(j) =>
              LET h == joins'[j]
                  s == h.socket
              IN  /\ h.emitted = "joined" <=> (Matches(h.tenantId, h.apiKey) /\ ~h.failed)
                  /\ (~Matches(h.tenantId, h.apiKey) /\ ~h.failed) =>
                        /\ h.emitted = "error: Invalid tenant credentials"
                        /\ sockets' = [sockets EXCEPT ![s] =
                               Emit(sockets[s], "error: Invalid tenant credentials")]
                        /\ sockets'[s].connected
                        /\ realtime_connections' = realtime_connections]_vars

\* A socket whose first join was refused for a mismatch has retried and joined.
C19_Witness ==
    \E j \in Joins :
        /\ joins[j].previous = "error: Invalid tenant credentials"
        /\ joins[j].pc = "done" /\ joins[j].emitted = "joined"
        /\ sockets[joins[j].socket].connected
        /\ sockets[joins[j].socket].tenantId = joins[j].tenantId
        /\ realtime_connections[joins[j].socket] /= {}
\* C20: every execute-query and test-connection event on a socket on which no
\* join had ended with 'joined' is answered with 'Not authenticated' alone: no
\* result for the caller, no notification to a room.
C20_AuthenticatedOnly ==
    \A i \in 1..Len(events) :
        ~events[i].joined
            => /\ events[i].emitted = {"error: Not authenticated"}
               /\ events[i].broadcast = {}

\* What the guard does ensure: an event on a socket without a bound tenant id
\* is answered with 'Not authenticated' alone.
UnboundRejected ==
    \A i \in 1..Len(events) :
        events[i].tenantId = NULL
            => /\ events[i].emitted = {"error: Not authenticated"}
               /\ events[i].broadcast = {}
\* C21: a successful execute-query of a socket bound to tenant T gives the
\* result to that socket alone and the notification to every other connected
\* member of T's room, never to the sender and never to a socket that is not
\* bound to T at that time.
C21_TenantScopedNotification ==
    \A i \in 1..Len(events) :
        LET e == events[i]
        IN  (e.event = "execute-query" /\ e.emitted = {"query-result"}) =>
                /\ e.broadcast = {Room(e.tenantId)}
                /\ \A d \in e.delivered :
                      /\ d.socket /= e.socket
                      /\ Room(e.tenantId) \in d.rooms
                      /\ d.tenantId = e.tenantId
\* How the code departs from C21 with no store call failing or pending: every
\* join has ended with 'joined', and a notification of one tenant's room has
\* reached a socket bound to another tenant.
CrossTenantDelivery ==
    /\ \A j \in AllJoins : joins[j].pc = "done" /\ joins[j].emitted = "joined"
                              /\ joins[j].previous \in {NULL, "joined"}
    /\ \E i \in 1..Len(events) :
          /\ events[i].joined /\ events[i].pending = {}
          /\ \E d \in events[i].delivered : d.tenantId /= events[i].tenantId
Closes(s) == sockets[s].connected /\ ~sockets'[s].connected

\* C23: the handlers of one socket run one event at a time: no execute-query
\* handler runs while a join-tenant of the same socket has not ended (so none
\* that follows a valid join-tenant is refused as not authenticated), and no
\* disconnect runs while a join-tenant of the socket waits for the store.
C23_OneEventAtATime ==
    /\ [](\A i \in 1..Len(events) : events[i].pending = {})
    /\ [][\A s \in Sockets : Closes(s) => PendingJoins(s) = {}]_vars

\* How the code departs from C23: an execute-query sent after a join-tenant
\* with valid credentials was refused as not authenticated.
ExecuteOvertakesJoin ==
    \E i \in 1..Len(events) :
        /\ events[i].emitted = {"error: Not authenticated"}
        /\ \E d \in events[i].pending : Matches(d.tenantId, d.apiKey)
\* C24: when a join-tenant ends with 'joined', the registry holds exactly one
\* row with the socket's connection id; its last_ping_at is the time of that
\* join and it is active, whatever the row was before; a row that was there
\* keeps its other columns, and the rows of other connections are unchanged.
C24_RejoinRoundTrip ==
    [][\A j \in Joins :
          (JoinEnds(j) /\ joins'[j].emitted = "joined") =>
              LET s == joins[j].socket
                  was == realtime_connections[s]
                  rows == realtime_connections'[s]
              IN  /\ Cardinality(rows) = 1
                  /\ Val(rows).connection_id = s
                  /\ Val(rows).last_ping_at = now
                  /\ Val(rows).is_active
                  /\ was /= {} =>
                        Val(rows) = [Val(was) EXCEPT !.last_ping_at = now,
                                                     !.is_active = TRUE]
                  /\ \A p \in AllSockets \ {s} :
                        realtime_connections'[p] = realtime_connections[p]]_vars

\* A join-tenant sent again on the same socket ended with 'joined' later than
\* the first, found the row inactive, and left it refreshed and active.
C24_Witness ==
    \E j \in Joins :
        /\ joins[j].pc = "done" /\ joins[j].emitted = "joined"
        /\ joins[j].previous = "joined"
        /\ joins[j].replaced /= {} /\ ~Val(joins[j].replaced).is_active
        /\ LET rows == realtime_connections[joins[j].socket]
           IN  /\ Cardinality(rows) = 1
               /\ Val(rows).is_active
               /\ Val(rows).last_ping_at = now
               /\ Val(rows).last_ping_at > Val(rows).connected_at
\* C25: on every registry the program reaches, the disconnect handler run for
\* a connection id leaves that id's row, if there is one, inactive and every
\* other row as it was; run again, whether or not its update fails, it
\* changes nothing more; and for an id without a row it changes nothing.
C25_DisconnectIdempotent ==
    \A s \in AllSockets, ok \in BOOLEAN :
        LET rc == realtime_connections
            once == DisconnectHandler(rc, s, TRUE)
            twice == DisconnectHandler(once, s, ok)
        IN  /\ twice = once
            /\ rc[s] /= {} => once[s] = {[Val(rc[s]) EXCEPT !.is_active = FALSE]}
            /\ rc[s] = {} => once = rc
            /\ \A p \in AllSockets \ {s} : once[p] = rc[p]
            /\ DisconnectHandler(rc, s, FALSE) = rc

\* The disconnect handler has run for a socket that had joined, next to the
\* active row of another connection.
C25_Witness ==
    \E s, p \in AllSockets :
        /\ s /= p
        /\ sockets[s].closed
        /\ realtime_connections[s] /= {} /\ ~Val(realtime_connections[s]).is_active
        /\ realtime_connections[p] /= {} /\ Val(realtime_connections[p]).is_active
\* C26: a run of the cleanup whose query succeeds deletes exactly the rows
\* whose last_ping_at is more than ten minutes before the run or whose
\* is_active is false, and leaves every other row as it was; a run whose
\* query fails deletes nothing.
C26_SweepPredicate ==
    \A w \in swept :
        \A c \in AllSockets :
            LET row == Val(w.before[c])
            IN  w.after[c] =
                    IF /\ w.ok
                       /\ w.before[c] /= {}
                       /\ (w.at - row.last_ping_at > 10 \/ ~row.is_active)
                    THEN {} ELSE w.before[c]

\* One run deleted an active row whose heartbeat was 11 minutes old and
\* retained an active row whose heartbeat was 9 minutes old.
C26_Witness ==
    \E w \in swept :
        /\ w.ok
        /\ \E c, d \in AllSockets :
              /\ w.before[c] /= {} /\ Val(w.before[c]).is_active
              /\ w.at - Val(w.before[c]).last_ping_at = 11
              /\ w.after[c] = {}
              /\ w.before[d] /= {} /\ Val(w.before[d]).is_active
              /\ w.at - Val(w.before[d]).last_ping_at = 9
              /\ w.after[d] = w.before[d]
\* C27: with the cleanup interval firing and the store answering it again and
\* again, the row of every closed socket is eventually deleted, whether or
\* not the disconnect handler's update was stored and whatever runs of the
\* cleanup failed before.
C27_EventualReclamation ==
    \A s \in Sockets :
        (sockets[s].closed /\ realtime_connections[s] /= {})
            ~> (realtime_connections[s] = {})

\* A run of the cleanup deleted the row of a closed socket that was still
\* active: the disconnect handler's update had not been stored.
C27_Witness ==
    \E w \in swept :
        \E s \in Sockets :
            /\ sockets[s].closed
            /\ w.ok
            /\ w.before[s] /= {} /\ Val(w.before[s]).is_active
            /\ w.after[s] = {}
            /\ realtime_connections[s] = {}
\* Request r carries an identity resolved from a session token.
TokenIdentity(r) == reqs[r].authMethod = "jwt" /\ reqs[r].tenant /= NoTenant

\* C28: an identity resolved from a session token carries as rate limit the
\* tenant's daily quota and no permission, and requirePermission on it passes
\* only when the tenant's plan is enterprise.
C28_TokenIdentity ==
    /\ \A r \in Requests :
          TokenIdentity(r) =>
              /\ "rate_limit" \in DOMAIN reqs[r].tenant
              /\ reqs[r].tenant.rate_limit = tenants[reqs[r].tenant.id].max_requests_per_day
              /\ PermissionsOf(reqs[r].tenant) = {}
    /\ \A i \in DOMAIN checks :
          (checks[i].kind = "permission" /\ TokenIdentity(checks[i].req)) =>
              (checks[i].result.passed => checks[i].tenant.plan = "enterprise")

\* How the code departs from C28: requirePermission passed on the token
\* identity of a tenant whose plan is not enterprise.
TokenPassesPermission ==
    \E i \in DOMAIN checks :
        /\ checks[i].kind = "permission" /\ TokenIdentity(checks[i].req)
        /\ checks[i].result.passed
        /\ checks[i].tenant.plan /= "enterprise"
\* Request r has passed the key lookup and the expiry check with row rows[0];
\* the row was matched by a secondary key, or by the tenant's primary key.
KeyResolved(r) == reqs[r].row /= NoRow
ViaSecondary(r) ==
    /\ reqs[r].apiKey \in DOMAIN api_keys
    /\ api_keys[reqs[r].apiKey].tenant_id = reqs[r].row.id

\* The rate limit and the permission set C29 names for request r: those of
\* the secondary key (a limit of 0 included; with no limit set, the tenant's
\* quota), or the tenant's quota and no permission.
NamedLimit(r) ==
    IF ViaSecondary(r) /\ api_keys[reqs[r].apiKey].rate_limit /= {}
    THEN Val(api_keys[reqs[r].apiKey].rate_limit)
    ELSE tenants[reqs[r].row.id].max_requests_per_day
NamedPermissions(r) ==
    IF ViaSecondary(r) THEN api_keys[reqs[r].apiKey].permissions ELSE {}

\* C29: for an opaque key, the limit the quota check compares and the limit
\* and permission set attached to the identity are those of the matched
\* secondary key, a limit of 0 included, and the tenant's daily quota and the
\* empty set when the tenant's primary key matched.
C29_EffectiveLimitAndPermissions ==
    \A r \in Requests :
        (KeyResolved(r) /\ reqs[r].pc \in {"log", "done"}) =>
            /\ reqs[r].limit = NamedLimit(r)
            /\ reqs[r].tenant /= NoTenant =>
                  /\ reqs[r].tenant.rate_limit = NamedLimit(r)
                  /\ reqs[r].tenant.permissions = NamedPermissions(r)

\* How the code departs from C29: a request with a secondary key whose limit
\* is 0 was admitted under the tenant's quota.
ZeroLimitAdmitted ==
    \E r \in Requests :
        /\ KeyResolved(r) /\ ViaSecondary(r)
        /\ api_keys[reqs[r].apiKey].rate_limit = {0}
        /\ api_keys[reqs[r].apiKey].is_active
        /\ reqs[r].pc = "done" /\ reqs[r].next = 1
        /\ reqs[r].tenant.rate_limit = tenants[reqs[r].row.id].max_requests_per_day
        /\ reqs[r].tenant.rate_limit > 0
\* C30: the last_used_at of a secondary key is set whenever a request was
\* resolved through it, and only then: never for a request resolved through
\* a tenant's primary key or a session token.
C30_LastUsedUpdated ==
    /\ \A r \in Requests :
          (KeyResolved(r) /\ ViaSecondary(r)) =>
              api_keys[reqs[r].apiKey].last_used_at /= {}
    /\ \A k \in DOMAIN api_keys :
          api_keys[k].last_used_at /= {} =>
              \E r \in Requests :
                  reqs[r].apiKey = k /\ KeyResolved(r) /\ ViaSecondary(r)

\* What the code does ensure: last_used_at is set exactly for the keys through
\* which a request was resolved and whose rate_limit is neither NULL nor 0.
LastUsedWhenLimited ==
    \A k \in DOMAIN api_keys :
        api_keys[k].last_used_at /= {} <=>
            \E r \in Requests :
                /\ reqs[r].apiKey = k /\ KeyResolved(r) /\ ViaSecondary(r)
                /\ api_keys[k].rate_limit \notin {{}, {0}}

\* How the code departs from C30: a request resolved through an active,
\* unexpired secondary key was admitted and the key was never marked used.
ResolvedKeyNotTouched ==
    \E r \in Requests :
        /\ KeyResolved(r) /\ ViaSecondary(r)
        /\ api_keys[reqs[r].apiKey].is_active
        /\ reqs[r].pc = "done" /\ reqs[r].next = 1
        /\ api_keys[reqs[r].apiKey].last_used_at = {}

\* C31: every ping is answered with a pong, whatever the state of the
\* connection, and with nothing else; a ping changes a Connection row only
\* when the socket has joined and the update succeeded, and then it changes
\* only last_ping_at of the socket's own row: is_active, the other columns
\* and the other rows stay; a failed update emits no error to the client.
C31_Heartbeat ==
    [][\A s \in AllSockets, ok \in BOOLEAN :
          Ping(s, ok) =>
              /\ "pong" \in sockets'[s].emitted
              /\ sockets'[s].emitted \ sockets[s].emitted \subseteq {"pong"}
              /\ \A p \in AllSockets \ {s} : sockets'[p] = sockets[p]
              /\ \A c \in AllSockets :
                    realtime_connections'[c] /= realtime_connections[c] =>
                        /\ c = s /\ ok /\ Joined(s)
                        /\ realtime_connections[c] /= {}
                        /\ realtime_connections'[c] =
                               {[Val(realtime_connections[c]) EXCEPT
                                    !.last_ping_at = now]}]_vars

\* A joined socket whose row carries a heartbeat later than its upsert, next
\* to the row of another socket.
C31_Witness ==
    \E s \in AllSockets, p \in AllSockets :
        /\ p /= s
        /\ Joined(s) /\ "pong" \in sockets[s].emitted
        /\ realtime_connections[s] /= {} /\ realtime_connections[p] /= {}
        /\ Val(realtime_connections[s]).is_active
        /\ Val(realtime_connections[s]).last_ping_at
               > Val(realtime_connections[s]).connected_at
        /\ Val(realtime_connections[p]).last_ping_at
               < Val(realtime_connections[s]).last_ping_at

\* C32: every run of authenticateTenant ends in exactly one outcome: next()
\* called once with req.tenant and req.authMethod set and no response sent,
\* or one response 401, 429 or 500 sent, next() not called and req.tenant not
\* set; while the handler waits for the store it has done neither.
C32_ExactlyOneOutcome ==
    \A r \in Requests :
        LET q == reqs[r]
        IN  /\ q.pc /= "done" => q.next = 0 /\ q.status = 0
            /\ q.pc = "done" =>
                   \/ /\ q.next = 1 /\ q.status = 0
                      /\ q.tenant /= NoTenant
                      /\ q.authMethod \in {"jwt", "api_key"}
                   \/ /\ q.next = 0 /\ q.status \in {401, 429, 500}
                      /\ q.tenant = NoTenant

\* One request admitted with its identity and another answered 429.
C32_Witness ==
    \E r, p \in Requests :
        /\ reqs[r].pc = "done" /\ reqs[r].next = 1 /\ reqs[r].authMethod = "api_key"
        /\ reqs[p].pc = "done" /\ reqs[p].status = 429

\* The rows of tenant tid in api_usage_logs.
RowsOf(tid) ==
    SumOver(api_usage_logs, {l \in BagToSet(api_usage_logs) : l.tenant_id = tid})

\* The requests that authenticateTenant let through on an opaque key of
\* tenant tid.
AdmittedByKey(tid) ==
    {r \in Requests : /\ reqs[r].pc = "done" /\ reqs[r].next = 1
                      /\ reqs[r].authMethod = "api_key"
                      /\ reqs[r].tenant.id = tid}

\* The checks that answered 403 to a request admitted on an opaque key.
DeniedByGate ==
    {i \in DOMAIN checks : /\ checks[i].result.status = 403
                           /\ reqs[checks[i].req].authMethod = "api_key"}

\* C33 as stated: a request that requirePermission or requirePlan answers
\* 403 on the opaque-key path has a row in api_usage_logs by then: the
\* tenant has a row for each of its admitted requests.
C33_DeniedAlreadyRecorded ==
    \A i \in DeniedByGate :
        LET tid == reqs[checks[i].req].tenant.id
        IN  /\ reqs[checks[i].req].logAttempted
            /\ RowsOf(tid) >= Cardinality(AdmittedByKey(tid))

\* C33, amended: the insert has been attempted before the check runs, and
\* the tenant has a row for each admitted request whose insert did not fail.
C33_DeniedAlreadyAttempted ==
    \A i \in DeniedByGate :
        LET tid == reqs[checks[i].req].tenant.id
        IN  /\ reqs[checks[i].req].logAttempted
            /\ RowsOf(tid) >=
                   Cardinality({r \in AdmittedByKey(tid) : ~reqs[r].insertFailed})

\* A request admitted and recorded, then answered 403, and a later request
\* of the same tenant answered 429 on a count that includes its row.
C33_Witness ==
    \E i \in DeniedByGate, p \in Requests :
        /\ ~reqs[checks[i].req].insertFailed
        /\ p /= checks[i].req
        /\ reqs[p].status = 429
        /\ reqs[p].row.id = reqs[checks[i].req].tenant.id
        /\ reqs[p].current = 1
        /\ RowsOf(reqs[p].row.id) = 1

\* C34: a socket none of whose join-tenant handlers is waiting for the store
\* is listed in at most one tenant room, the room of the tenant it is bound
\* to (socket.tenantId); so after a second successful join with another
\* tenant id it is no longer in the first tenant's room.
C34_AtMostOneRoom ==
    \A s \in AllSockets :
        PendingJoins(s) = {} => sockets[s].rooms \subseteq {Room(sockets[s].tenantId)}

\* C35: once a socket has closed and none of its join-tenant handlers is
\* waiting for the store, its Connection row, if there is one, has
\* is_active = false, however the disconnect handler was interleaved with a
\* join-tenant handler that was waiting when the socket closed.
C35_ClosedEndsInactive ==
    \A s \in AllSockets :
        (sockets[s].closed /\ PendingJoins(s) = {}) =>
            \/ realtime_connections[s] = {}
            \/ ~Val(realtime_connections[s]).is_active

\* C36: a row that is missing is created only by the upsert of a join-tenant
\* that ends with 'joined', never by a ping; the cleanup that deletes the row
\* of a socket leaves the socket as it is, and a ping leaves the socket's
\* tenantId and rooms as they are: the socket stays bound and listed, with no
\* row, until its next successful join.
C36_SweptRowNotRecreated ==
    [][\A s \in Sockets :
          /\ (realtime_connections[s] = {} /\ realtime_connections'[s] /= {}) =>
                 \E j \in Joins : /\ joins[j].socket = s /\ joins[j].pc = "upsert"
                                  /\ joins'[j].pc = "done" /\ joins'[j].emitted = "joined"
          /\ (realtime_connections[s] /= {} /\ realtime_connections'[s] = {}) =>
                 sockets'[s] = sockets[s]
          /\ (\E ok \in BOOLEAN : PingTracked(s, ok)) =>
                 /\ sockets'[s].tenantId = sockets[s].tenantId
                 /\ sockets'[s].rooms = sockets[s].rooms
                 /\ (realtime_connections[s] = {} => realtime_connections'[s] = {})]_vars

\* A socket that pinged, with an update that succeeded, after it had joined
\* and its row had been deleted (for its age: the socket has not
\* disconnected), and that still has no row, bound and listed as before.
C36_Witness ==
    \E s \in Sockets, i \in 1..Len(events) :
        /\ events[i].event = "ping" /\ events[i].socket = s /\ events[i].ok
        /\ events[i].joined /\ events[i].row = {}
        /\ events[i].tenantId = "t1"
        /\ sockets[s].connected /\ sockets[s].tenantId = "t1"
        /\ Room("t1") \in sockets[s].rooms
        /\ realtime_connections[s] = {}

\* C37: with the tenants and keys of the store fixed, two requests that
\* present the same opaque credential and are resolved get the same tenant,
\* the same permission set and the same effective rate limit.
C37_DeterministicResolution ==
    \A r, p \in Requests :
        (/\ reqs[r].row.id /= NULL /\ reqs[p].row.id /= NULL
         /\ reqs[r].apiKey = reqs[p].apiKey) =>
            /\ reqs[r].row.id = reqs[p].row.id
            /\ reqs[r].row.permissions = reqs[p].row.permissions
            /\ EffectiveLimit(reqs[r].row) = EffectiveLimit(reqs[p].row)

\* The secondary keys that are inactive and unexpired and belong to an active
\* tenant.
InactiveKeys ==
    {k \in SecondaryKeys : /\ ~api_keys[k].is_active
                           /\ tenants[api_keys[k].tenant_id].is_active
                           /\ (api_keys[k].expires_at = {}
                                  \/ Val(api_keys[k].expires_at) > MaxTime)}

\* C38: the key lookup returns the same rows for a secondary key whatever the
\* key's own is_active flag, and a request that presents an inactive,
\* unexpired secondary key of an active tenant is resolved to that tenant
\* with the key's permissions and rate limit, as with an active key.
C38_KeyFlagIgnored ==
    /\ \A k \in SecondaryKeys, f \in BOOLEAN :
          KeyLookupRows(tenants, [api_keys EXCEPT ![k].is_active = f], k)
              = KeyLookupRows(tenants, api_keys, k)
    /\ \A r \in Requests :
          (/\ reqs[r].apiKey \in InactiveKeys
           /\ reqs[r].pc /= "idle"
           /\ ~reqs[r].lookupFailed /\ ~reqs[r].updateFailed) =>
              /\ reqs[r].row.id = api_keys[reqs[r].apiKey].tenant_id
              /\ reqs[r].row.matched = reqs[r].apiKey
              /\ reqs[r].row.permissions = api_keys[reqs[r].apiKey].permissions
              /\ reqs[r].row.api_key_rate_limit = api_keys[reqs[r].apiKey].rate_limit

\* A request let through on an inactive secondary key.
C38_Witness ==
    \E r \in Requests :
        /\ reqs[r].apiKey \in InactiveKeys
        /\ reqs[r].pc = "done" /\ reqs[r].next = 1
        /\ reqs[r].tenant.id = api_keys[reqs[r].apiKey].tenant_id

\* The requests that presented a session token whose signature or expiry
\* jwt.verify refuses.
BadTokenRequests ==
    {r \in Requests : /\ reqs[r].pc = "done" /\ StartsWithEyJ(reqs[r].apiKey)
                      /\ ~SessionTokens[reqs[r].apiKey].signed}

\* C39: a request whose tenant lookup failed on the session-token path is
\* answered 401 Invalid token, as a request with a badly signed token is; a
\* request whose key lookup failed on the opaque-key path is answered 500;
\* neither gets an identity or reaches next().
C39_LookupFailureByPath ==
    \A r \in Requests : reqs[r].lookupFailed =>
        /\ reqs[r].pc = "done" /\ reqs[r].next = 0
        /\ reqs[r].tenant = NoTenant /\ reqs[r].authMethod = NULL
        /\ StartsWithEyJ(reqs[r].apiKey) =>
               /\ reqs[r].status = 401 /\ reqs[r].error = "Invalid token"
               /\ \A p \in BadTokenRequests :
                     /\ reqs[p].status = reqs[r].status
                     /\ reqs[p].error = reqs[r].error
        /\ ~StartsWithEyJ(reqs[r].apiKey) =>
               reqs[r].status = 500 /\ reqs[r].error = "Authentication failed"

\* The lookup failed for a well-signed, unexpired session token and the
\* answer is the one a forged token got.
C39_Witness ==
    \E r \in Requests, p \in BadTokenRequests :
        /\ reqs[r].lookupFailed /\ StartsWithEyJ(reqs[r].apiKey)
        /\ JwtVerifies(reqs[r].apiKey, now)
        /\ reqs[r].status = 401 /\ reqs[p].status = 401
        /\ reqs[r].error = reqs[p].error
====
